---- MODULE Spec2Model ----
(***************************************************************************)
(* A model of the temu terminal emulator: the PTY reader thread and the    *)
(* shared terminal cell (src/term.rs), the render loop (src/render.rs),    *)
(* the viewport (src/render/viewport.rs), the cell renderer's scroll and   *)
(* mouse state (src/render/cell.rs) and the GPU vectors (wgpu_vec.rs).     *)
(***************************************************************************)
EXTENDS Integers, Sequences, FiniteSets, TLC

(***************************************************************************)
(* Bounds of the model.                                                    *)
(***************************************************************************)
\* number of successful PTY reads the reader performs
MaxReads == 2
\* longest scroll round trip: MaxTrip scrolls up, then MaxTrip scrolls down
MaxTrip == 2
\* the values a WgpuCell holds are 0..MaxCellValue
MaxCellValue == 2
\* the grid Terminal is created with 1..MaxColumn columns
MaxColumn == 2
\* the grid Terminal is followed until it has MaxGridRows rows
MaxGridRows == 4
\* largest count handed to the cursor movement actions
MaxMove == 2
\* the scrollback limit the grid Terminal is held against
ScrollbackLimit == 1
\* number of UI events that may sit in the event channel
ChanCap == 1
\* number of snapshots handed to the CellContext
MaxSnapshots == 3
\* width in bits of the model's isize (StableRowIndex)
ISIZE_BITS == 5
\* the CPU vectors hold up to MaxLenUnits times the initial capacity, plus one
MaxLenUnits == 3
\* glyphs in the font's character map
MaxGlyphs == 3
\* the largest glyph raster, in half texture widths
MaxGlyphCells == 3
\* glyphs in a shaped line, and the largest advance of a glyph
MaxLineGlyphs == 2
MaxAdvance == 2
\* the largest line number and the number of different line texts drawn
MaxLyonLine == 2
MaxLyonText == 2

(***************************************************************************)
(* Program constants.                                                      *)
(***************************************************************************)
\* Viewport::resize: width.max(300), height.max(200)
MIN_WIDTH == 300
MIN_HEIGHT == 200

Max(a, b) == IF a >= b THEN a ELSE b
Min(a, b) == IF a <= b THEN a ELSE b

\* window sizes the window collaborator reports
Sizes == {<<0, 600>>, <<100, 0>>, <<100, 100>>, <<800, 600>>}

VARIABLES
    \* --- reader thread (term::run)
    t_pc,                   \* "top" | "store" | "read" | "done" | "panic"
    terminal,               \* the reader's own Terminal
    parser,                 \* vte::Parser state: the batches it has consumed
    need_update,
    last_read,              \* result of the last master_file.read
    reader_tx,              \* the reader still owns its Sender<TemuEvent>
    \* --- SharedTerminal
    shared_terminal,        \* content of the Mutex<Terminal>
    changed,                \* AtomicBool
    mutex,                  \* "free" | "reader" | "renderer"
    published,              \* the terminal handed to the last successful try_update_terminal
    fresh,                  \* a try_update_terminal stored a clone after take_terminal's last read
    \* --- renderer thread (render::run)
    r_pc,                   \* "wait_size" | "loop" | "take" | "lock" | "assign" | "recv" | "done" | "panic"
    need_redraw,
    prev_resize,
    ctx_terminal,
    cursor_vertex_outdated,
    config,                 \* Viewport.config (width, height)
    r_last,                 \* what the renderer's last step did: "redraw" (a frame
                            \* was presented), "redraw_none" (no surface texture) or "other"
    \* --- window thread and the UI event channel
    event_ch,
    w_state,                \* "running" | "quiet" | "closed" | "exited"
    \* --- CellContext (render/cell.rs)
    scroll_offset,
    mouse_status,           \* Hover(target) | Drag { target, start, current }
    scrollbar_fg,           \* ui.scrollbar_fg
    thumb,                  \* ui.scrollbar_top and ui.scrollbar_height
    window_size,            \* window_size.size
    c_term,                 \* the Terminal the renderer passes to CellContext
    c_last,                 \* the last CellContext operation
    c_ret,                  \* what it returned
    c_panicked,             \* an unreachable!() or an overflow check fired
    c_cursor,               \* the cursor position last handed to hover or drag
    \* --- WgpuVec of the wgpu-container crate
    v_len,                  \* cpu_buffer.len()
    v_cap,                  \* inner_cap
    v_alloc,                \* elements the GPU buffer `inner` was created for
    \* --- WgpuVec of the renderer (render/wgpu_vec.rs)
    rv_len,                 \* vec.len()
    rv_cap,                 \* inner_cap
    rv_alloc,               \* elements the GPU buffer `inner` was created for
    rv_written,             \* elements the last write copied into `inner`
    vec_last,               \* the last WgpuVec operation
    \* --- a scroll round trip driven against the CellContext
    trip_phase,             \* "idle" | "up" | "down" | "end"
    trip_start,             \* scroll_offset when the round trip began
    trip_n,                 \* scrolls in each direction
    trip_left,              \* scrolls left in the current direction
    trip_output,            \* a newer snapshot arrived during the round trip
    \* --- routing of the mouse events to the CellContext
    left_pressed,           \* the left button is held
    drag_moved,             \* the cursor moved since the button was pressed
    \* --- WgpuCell of the wgpu-container crate
    wc_value,               \* value
    wc_gpu,                 \* content of the GPU buffer `inner`
    wc_outdated,            \* outdated
    wc_touched,             \* as_mut or update was called since new or the last flush
    wc_wrote,               \* the last operation called queue.write_buffer
    \* --- WgpuCell of the renderer (render/wgpu_cell.rs)
    rwc_value,              \* value
    rwc_gpu,                \* content of the GPU buffer `inner`
    wc_last,                \* the last WgpuCell operation
    \* --- Terminal of term/grid.rs
    g_term,                 \* grid, cursor, column; panicked after an index out of bounds
    g_last,                 \* the action handed to the last perform_action
    \* --- cell-background pass of CellContext::set_terminal
    bg_lines,               \* screen.lines: rows of cells, a cell is its background (0 = Default)
    bg_offset,              \* scroll_offset: the first visible row
    bg_instances,           \* instances.cpu_buffer
    bg_last,                \* the last operation
    \* --- FontTexture::new and the text pass of CellContext::set_terminal
    ft_pc,                  \* "enumerate" | "done" | "panic"
    ft_next,                \* the glyph id charmap().enumerate hands out next
    ft_allocator,           \* ArrayAllocator.inner: per layer, the allocated rectangles
    ft_local_layer_count,   \* the local `layer_count` of FontTexture::new
    ft_pages,               \* data.len() / TEXTURE_SIZE
    ft_cache,               \* glyph_cache, as the set of its entries, each with
                            \* the number of page rows its raster was copied to
    ft_layer_count,         \* FontTexture.layer_count (0 before new returns)
    ft_empty,               \* ids of the glyphs rendered with a zero width or height
    tx_line,                \* the shaped glyphs of the line: id and advance
    tx_instances,           \* text_instances.cpu_buffer
    tx_x,                   \* the pen position x after the line
    tx_last,                \* the last operation of the text pass
    \* --- LyonContext (render/lyon.rs)
    ly_lines,               \* lines: per line number, the mesh (its text and its line_no)
    ly_vertex_cache,        \* vertex_cache: per text, the mesh built for it
    ly_drawn,               \* line numbers drawn and not deleted or cleared since
    ly_last,                \* the last DrawCommand
    \* --- Wayland keyboard handler (main.rs)
    modifier,               \* the ModifierState kept by the filter
    mods_depressed,         \* the bits of the last Modifiers event that are set
    kb_passed,              \* the modifier handed to the last press_key_code
    kb_last                 \* the last keyboard event

renderVars == <<t_pc, terminal, parser, need_update, last_read, reader_tx,
                shared_terminal, changed, mutex, published, fresh,
                r_pc, need_redraw, prev_resize, ctx_terminal,
                cursor_vertex_outdated, config, r_last,
                event_ch, w_state>>

cellVars == <<scroll_offset, mouse_status, scrollbar_fg, thumb, window_size,
              c_term, c_last, c_ret, c_panicked, c_cursor>>

vecVars == <<v_len, v_cap, v_alloc,
             rv_len, rv_cap, rv_alloc, rv_written, vec_last>>

tripVars == <<trip_phase, trip_start, trip_n, trip_left, trip_output>>

wcellVars == <<wc_value, wc_gpu, wc_outdated, wc_touched, wc_wrote,
               rwc_value, rwc_gpu, wc_last>>

routeVars == <<left_pressed, drag_moved>>

\* the threads, the CellContext and the WgpuVec types
coreVars == <<renderVars, cellVars, vecVars, tripVars, routeVars>>
\* the components modelled on their own
gridVars == <<g_term, g_last>>

bgVars == <<bg_lines, bg_offset, bg_instances, bg_last>>

fontVars == <<ft_pc, ft_next, ft_allocator, ft_local_layer_count, ft_pages,
              ft_cache, ft_layer_count, ft_empty,
              tx_line, tx_instances, tx_x, tx_last>>

lyonVars == <<ly_lines, ly_vertex_cache, ly_drawn, ly_last>>

kbVars == <<modifier, mods_depressed, kb_passed, kb_last>>

auxVars == <<wcellVars, gridVars, bgVars, fontVars, lyonVars, kbVars>>

\* variables the three threads leave alone
nonRenderVars == <<cellVars, vecVars, tripVars, routeVars, auxVars>>
\* variables the CellContext operations leave alone
nonCellVars == <<renderVars, vecVars, tripVars, auxVars>>
\* variables the WgpuVec operations leave alone
nonVecVars == <<renderVars, cellVars, tripVars, routeVars, auxVars>>

vars == <<coreVars, auxVars>>

(***************************************************************************)
(* Terminal snapshots.  A Terminal is abstracted to its sequence number    *)
(* (how many read batches were parsed into it) and the stable index of     *)
(* the first physical row of its screen.                                   *)
(***************************************************************************)
NewTerminal == [seq |-> 0, top |-> 0]

\* parser.advance(&mut terminal, b) for every byte of one read; `scrolled`
\* tells whether the batch pushed a line into the scrollback
Advance(t, scrolled) == [seq |-> t.seq + 1, top |-> t.top + scrolled]

\* screen.visible_row_to_stable_row(0)
VisibleRowToStableRow0(t) == t.top

\* a try_update_terminal that sets the flag without storing the clone
UpdatedTerminal_NotStored(lock, t) == lock

\* *lock = terminal.clone()
UpdatedTerminal(lock, t) == t

(***************************************************************************)
(* Events of the UI channel.                                               *)
(***************************************************************************)
Ev(type, w, h) == [type |-> type, width |-> w, height |-> h]
NoEvent == Ev("None", 0, 0)
ResizeEvents == {Ev("Resize", sz[1], sz[2]) : sz \in Sizes}
PlainEvents == {Ev("Redraw", 0, 0), Ev("ScrollUp", 0, 0), Ev("ScrollDown", 0, 0)}
CloseEvent == Ev("Close", 0, 0)

\* every Sender of the UI channel has been dropped
Disconnected == ~reader_tx /\ w_state = "exited"

\* the renderer still owns the Receiver
ReceiverAlive == r_pc \notin {"done", "panic"}

(***************************************************************************)
(* Reader thread: term::run                                                *)
(***************************************************************************)
readerVars == <<t_pc, terminal, parser, need_update, last_read, reader_tx>>
sharedVars == <<shared_terminal, changed, mutex, published, fresh>>
rendererVars == <<r_pc, need_redraw, prev_resize, ctx_terminal,
                  cursor_vertex_outdated, config, r_last>>
windowVars == <<w_state>>

\* a reader that treats Interrupted like every other error
AfterRead_NoRetry(res) ==
    CASE res = "Ok" -> "top"
      [] OTHER -> "done"

\* where the loop goes after a read
AfterRead(res) ==
    CASE res = "Eof" -> "done"
      [] res = "Ok" -> "top"
      [] res = "Interrupted" -> "top"
      [] OTHER -> "done"

\* if need_update { need_update = shared_terminal.try_update_terminal(&terminal) }
\* try_lock succeeded: the clone is written while the lock is held
TryUpdateLocked ==
    /\ t_pc = "top" /\ need_update /\ mutex = "free"
    /\ mutex' = "reader"
    /\ shared_terminal' = UpdatedTerminal(shared_terminal, terminal)
    /\ published' = terminal
    /\ fresh' = TRUE
    /\ t_pc' = "store"
    /\ UNCHANGED <<terminal, parser, need_update, last_read, reader_tx, changed>>
    /\ UNCHANGED <<rendererVars, event_ch, windowVars, nonRenderVars>>

\* self.changed.store(true); the guard is dropped; returns true
TryUpdateStore ==
    /\ t_pc = "store"
    /\ changed' = TRUE
    /\ mutex' = "free"
    /\ need_update' = TRUE
    /\ t_pc' = "read"
    /\ UNCHANGED <<terminal, parser, last_read, reader_tx, shared_terminal, published,
                   fresh>>
    /\ UNCHANGED <<rendererVars, event_ch, windowVars, nonRenderVars>>

\* try_lock failed: returns false
TryUpdateBusy ==
    /\ t_pc = "top" /\ need_update /\ mutex # "free"
    /\ need_update' = FALSE
    /\ t_pc' = "read"
    /\ UNCHANGED <<terminal, parser, last_read, reader_tx>>
    /\ UNCHANGED <<sharedVars, rendererVars, event_ch, windowVars, nonRenderVars>>

\* need_update is false: straight to the read
SkipUpdate ==
    /\ t_pc = "top" /\ ~need_update
    /\ t_pc' = "read"
    /\ UNCHANGED <<terminal, parser, need_update, last_read, reader_tx>>
    /\ UNCHANGED <<sharedVars, rendererVars, event_ch, windowVars, nonRenderVars>>

\* match master_file.read(&mut buffer)
Read(res, scrolled) ==
    /\ t_pc = "read"
    /\ last_read' = res
    /\ t_pc' = AfterRead(res)
    /\ IF res = "Ok"
       THEN /\ terminal.seq < MaxReads
            /\ terminal' = Advance(terminal, scrolled)
            /\ parser' = parser + 1
            /\ need_update' = TRUE
       ELSE UNCHANGED <<terminal, parser, need_update>>
    \* leaving run drops _event_tx
    /\ reader_tx' = (AfterRead(res) = "top")
    /\ UNCHANGED <<sharedVars, rendererVars, event_ch, windowVars, nonRenderVars>>

ReadStep ==
    \E res \in {"Ok", "Eof", "Interrupted", "Error"}, scrolled \in {0, 1} :
        Read(res, scrolled)

Reader == TryUpdateLocked \/ TryUpdateStore \/ TryUpdateBusy \/ SkipUpdate \/ ReadStep

(***************************************************************************)
(* Window thread: sends UI events (temu-window/src/platform, src/main.rs)  *)
(***************************************************************************)
Send(e) ==
    /\ w_state = "running"
    /\ ReceiverAlive
    /\ Len(event_ch) < ChanCap
    /\ event_ch' = Append(event_ch, e)
    /\ UNCHANGED <<readerVars, sharedVars, rendererVars, windowVars, nonRenderVars>>

SendResize == \E e \in ResizeEvents : Send(e)
SendPlain == \E e \in PlainEvents : Send(e)

\* CloseRequested: send Close and leave the event loop
SendClose ==
    /\ w_state = "running"
    /\ Len(event_ch) < ChanCap
    \* tx.send(..).ok(): the send fails silently once the receiver is gone
    /\ event_ch' = IF ReceiverAlive THEN Append(event_ch, CloseEvent) ELSE event_ch
    /\ w_state' = "closed"
    /\ UNCHANGED <<readerVars, sharedVars, rendererVars, nonRenderVars>>

\* the window keeps its senders but produces no further event
WindowQuiet ==
    /\ w_state = "running"
    /\ w_state' = "quiet"
    /\ UNCHANGED <<readerVars, sharedVars, rendererVars, event_ch, nonRenderVars>>

\* the window thread leaves its event loop (after Close, or when the event
\* queue fails) and its senders are dropped
WindowExit ==
    /\ w_state \in {"running", "quiet", "closed"}
    /\ w_state' = "exited"
    /\ UNCHANGED <<readerVars, sharedVars, rendererVars, event_ch, nonRenderVars>>

Window == SendResize \/ SendPlain \/ SendClose \/ WindowQuiet \/ WindowExit

(***************************************************************************)
(* Renderer thread: render::run                                            *)
(***************************************************************************)
\* Viewport::resize / ViewportDesc::build: the configured surface size
Configure(width, height) == <<Max(width, MIN_WIDTH), Max(height, MIN_HEIGHT)>>

\* Viewport::width: self.config.width
ViewportWidth(cfg) == cfg[1]

\* Viewport::height: self.config.width
ViewportHeight(cfg) == cfg[1]

\* fn wait_size: let e = event_rx.recv().unwrap()
WaitSizeRecv ==
    /\ r_pc = "wait_size"
    /\ event_ch # <<>>
    /\ LET e == Head(event_ch) IN
        /\ event_ch' = Tail(event_ch)
        /\ IF e.type = "Resize"
           THEN \* return (width, height); Viewport::new; WgpuContext::new
                /\ prev_resize' = <<e.width, e.height>>
                /\ config' = Configure(e.width, e.height)
                /\ r_pc' = "loop"
                /\ r_last' = "other"
           ELSE \* _ => {}
                /\ r_last' = "other"
                /\ UNCHANGED <<prev_resize, config, r_pc>>
    /\ UNCHANGED <<need_redraw, ctx_terminal, cursor_vertex_outdated>>
    /\ UNCHANGED <<readerVars, sharedVars, windowVars, nonRenderVars>>

\* recv() returns Err(RecvError) when the channel is empty and disconnected;
\* unwrap() panics
WaitSizeDisconnected ==
    /\ r_pc = "wait_size"
    /\ event_ch = <<>> /\ Disconnected
    /\ r_pc' = "panic"
    /\ r_last' = "other"
    /\ UNCHANGED <<need_redraw, prev_resize, ctx_terminal, cursor_vertex_outdated,
                   config, event_ch>>
    /\ UNCHANGED <<readerVars, sharedVars, windowVars, nonRenderVars>>

\* a loop that redraws in every iteration
ShouldRedraw_Always(flag) == TRUE

\* if need_redraw { ... }
ShouldRedraw(flag) == flag

\* Viewport::get_current_texture: surface.get_current_texture()
\* .expect("Failed to acquire next swap chain texture") panics on every
\* SurfaceError, Outdated included
GetCurrentTexture(result) == IF result = "Ok" THEN "Some" ELSE "Panic"

\* ctx.redraw(&local_spawner); need_redraw = false
\* result: the outcome of surface.get_current_texture()
Redraw(result) ==
    /\ r_pc = "loop"
    /\ ShouldRedraw(need_redraw)
    /\ LET frame == GetCurrentTexture(result) IN
       IF frame = "Panic"
       THEN /\ r_pc' = "panic"
            /\ r_last' = result
            /\ UNCHANGED <<need_redraw, cursor_vertex_outdated>>
       ELSE /\ IF frame = "Some"
               THEN \* encode, submit, present
                    /\ cursor_vertex_outdated' = FALSE
                    /\ r_last' = "redraw"
               ELSE \* None => return
                    /\ r_last' = "redraw_none"
                    /\ UNCHANGED cursor_vertex_outdated
            /\ need_redraw' = FALSE
            /\ r_pc' = "take"
    /\ UNCHANGED <<prev_resize, ctx_terminal, config, event_ch>>
    /\ UNCHANGED <<readerVars, sharedVars, windowVars, nonRenderVars>>

RedrawStep ==
    \E result \in {"Ok", "Timeout", "Outdated", "Lost", "OutOfMemory"} :
        Redraw(result)

NoRedraw ==
    /\ r_pc = "loop"
    /\ ~ShouldRedraw(need_redraw)
    /\ r_pc' = "take"
    /\ r_last' = "other"
    /\ UNCHANGED <<need_redraw, prev_resize, ctx_terminal, cursor_vertex_outdated,
                   config, event_ch>>
    /\ UNCHANGED <<readerVars, sharedVars, windowVars, nonRenderVars>>

\* take_terminal: self.changed.swap(false, Ordering::Acquire)
TakeSwap ==
    /\ r_pc = "take"
    /\ changed' = FALSE
    /\ r_pc' = IF changed THEN "lock" ELSE "recv"
    /\ r_last' = "other"
    /\ UNCHANGED <<need_redraw, prev_resize, ctx_terminal, cursor_vertex_outdated,
                   config, event_ch>>
    /\ UNCHANGED <<shared_terminal, mutex, published, fresh>>
    /\ UNCHANGED <<readerVars, windowVars, nonRenderVars>>

\* take_terminal: Some(self.terminal.lock()) blocks until the mutex is free
TakeLock ==
    /\ r_pc = "lock"
    /\ mutex = "free"
    /\ mutex' = "renderer"
    /\ r_pc' = "assign"
    /\ r_last' = "other"
    /\ UNCHANGED <<need_redraw, prev_resize, ctx_terminal, cursor_vertex_outdated,
                   config, event_ch>>
    /\ UNCHANGED <<shared_terminal, changed, published, fresh>>
    /\ UNCHANGED <<readerVars, windowVars, nonRenderVars>>

\* ctx.terminal = terminal; ctx.cursor_vertex_outdated = true;
\* need_redraw = true; the guard is dropped at the end of the block
TakeAssign ==
    /\ r_pc = "assign"
    /\ ctx_terminal' = shared_terminal
    /\ cursor_vertex_outdated' = TRUE
    /\ need_redraw' = TRUE
    /\ fresh' = FALSE
    /\ mutex' = "free"
    /\ r_pc' = "recv"
    /\ r_last' = "other"
    /\ UNCHANGED <<prev_resize, config, event_ch>>
    /\ UNCHANGED <<shared_terminal, changed, published>>
    /\ UNCHANGED <<readerVars, windowVars, nonRenderVars>>

\* TemuEvent::Resize { width, height } => if prev_resize != (width, height)
ResizeChanges(prev, width, height) == prev # <<width, height>>

\* match event_rx.try_recv() { Ok(event) => ... }
RecvEvent ==
    /\ r_pc = "recv"
    /\ event_ch # <<>>
    /\ LET e == Head(event_ch) IN
        /\ r_last' = "other"
        /\ CASE e.type = "Close" ->
                 \* break; leaving run drops event_rx
                 /\ r_pc' = "done"
                 /\ event_ch' = <<>>
                 /\ UNCHANGED <<need_redraw, prev_resize, config>>
             [] e.type = "Resize" ->
                 /\ r_pc' = "loop"
                 /\ event_ch' = Tail(event_ch)
                 /\ IF ResizeChanges(prev_resize, e.width, e.height)
                    THEN \* ctx.resize(width, height)
                         /\ config' = Configure(e.width, e.height)
                         /\ need_redraw' = TRUE
                         /\ prev_resize' = <<e.width, e.height>>
                    ELSE UNCHANGED <<need_redraw, prev_resize, config>>
             [] e.type = "Redraw" ->
                 /\ r_pc' = "loop"
                 /\ event_ch' = Tail(event_ch)
                 /\ need_redraw' = TRUE
                 /\ UNCHANGED <<prev_resize, config>>
             [] OTHER ->
                 \* TemuEvent::ScrollUp => {}  TemuEvent::ScrollDown => {}
                 /\ r_pc' = "loop"
                 /\ event_ch' = Tail(event_ch)
                 /\ UNCHANGED <<need_redraw, prev_resize, config>>
    /\ UNCHANGED <<ctx_terminal, cursor_vertex_outdated>>
    /\ UNCHANGED <<readerVars, sharedVars, windowVars, nonRenderVars>>

\* Err(TryRecvError::Disconnected) => break
RecvDisconnected ==
    /\ r_pc = "recv"
    /\ event_ch = <<>> /\ Disconnected
    /\ r_pc' = "done"
    /\ r_last' = "other"
    /\ UNCHANGED <<need_redraw, prev_resize, ctx_terminal, cursor_vertex_outdated,
                   config, event_ch>>
    /\ UNCHANGED <<readerVars, sharedVars, windowVars, nonRenderVars>>

\* Err(TryRecvError::Empty) => sleep(50ms)
RecvEmpty ==
    /\ r_pc = "recv"
    /\ event_ch = <<>> /\ ~Disconnected
    /\ r_pc' = "loop"
    /\ r_last' = "other"
    /\ UNCHANGED <<need_redraw, prev_resize, ctx_terminal, cursor_vertex_outdated,
                   config, event_ch>>
    /\ UNCHANGED <<readerVars, sharedVars, windowVars, nonRenderVars>>

Renderer ==
    \/ WaitSizeRecv \/ WaitSizeDisconnected
    \/ RedrawStep \/ NoRedraw
    \/ TakeSwap \/ TakeLock \/ TakeAssign
    \/ RecvEvent \/ RecvDisconnected \/ RecvEmpty

(***************************************************************************)
(* CellContext: scroll offset and mouse status (render/cell.rs)            *)
(***************************************************************************)
\* ui.scrollbar_width = 15.0 * scale_factor, at scale factor 1
SCROLLBAR_WIDTH == 15
\* screen.physical_rows of the terminal handed to the renderer
PhysicalRows == 2

\* cursor positions the window reports
Xs == {0, 790}
Ys == {0, 200, 500}
\* window sizes handed to CellContext::resize
WindowSizes == {<<800, 600>>, <<400, 0>>}
InitialWindowSize == <<800, 600>>

ISIZE_MAX == 2 ^ (ISIZE_BITS - 1) - 1
ISIZE_MIN == 0 - 2 ^ (ISIZE_BITS - 1)
\* two's complement wrap-around of an isize
WrapISize(x) == ((x - ISIZE_MIN) % (2 ^ ISIZE_BITS)) + ISIZE_MIN
\* offsets handed to CellContext::scroll
ScrollOffsets == {ISIZE_MIN, -2, -1, 0, 1, 2, ISIZE_MAX}

Hover(target) == [kind |-> "Hover", target |-> target,
                  start |-> <<0, 0>>, current |-> <<0, 0>>]
Drag(target, start, current) == [kind |-> "Drag", target |-> target,
                                 start |-> start, current |-> current]
\* no cursor position has been reported yet
NoCursor == <<-1, -1>>

\* impl Default for MouseStatus
DefaultMouseStatus == Hover("Empty")

\* Ui { scrollbar_top: -1.0, scrollbar_height: 2.0 } until the first set_terminal;
\* afterwards top = 1 - 2 * start / full and height = -2 * len / full
InitialThumb == [set |-> FALSE, start |-> 0, len |-> 0, full |-> 1]

\* Ui::target, in exact arithmetic: with y_ndc = 1 - 2y / height,
\*   y_ndc <= top           <=>  y * full >= start * height
\*   y_ndc >= top + height  <=>  y * full <= (start + len) * height
\* a zero height makes y_ndc -inf or NaN and every test against it false
Target(th, size, x, y) ==
    LET width == size[1]
        height == size[2]
        scrollbar_left == width - SCROLLBAR_WIDTH
        cursor_in_scrollbar ==
            /\ x >= scrollbar_left
            /\ th.set
            /\ height > 0
            /\ y * th.full >= th.start * height
            /\ y * th.full <= (th.start + th.len) * height
    IN IF cursor_in_scrollbar THEN "ScrollBar" ELSE "Empty"

\* a hover that never focuses the scrollbar
FgFor_NeverFocused(target) == "UNFOCUSED"

\* a scrollbar that is drawn focused whatever the target
FgFor_AlwaysFocused(target) == "FOCUSED"

\* the scrollbar colour chosen for a target
FgFor(target) == IF target = "ScrollBar" THEN "FOCUSED" ELSE "UNFOCUSED"

\* (self.scroll_offset + offset).max(min).min(max)
Clamp(v, lo, hi) == Min(Max(v, lo), hi)

CellAlive == ~c_panicked

\* pub fn click(&mut self, _x, _y) -> bool { false }
CellClick ==
    /\ CellAlive
    /\ \E x \in Xs, y \in Ys : TRUE
    /\ c_last' = "click"
    /\ c_ret' = FALSE
    /\ UNCHANGED <<scroll_offset, mouse_status, scrollbar_fg, thumb, window_size,
                   c_term, c_panicked, c_cursor>>
    /\ UNCHANGED nonCellVars

\* pub fn hover(&mut self, x, y) -> bool
CellHover ==
    /\ CellAlive
    /\ \E x \in Xs, y \in Ys :
        LET target == Target(thumb, window_size, x, y) IN
        /\ c_last' = "hover"
        /\ c_cursor' = <<x, y>>
        /\ IF mouse_status.kind = "Hover"
           THEN IF mouse_status.target = target
                THEN /\ c_ret' = FALSE
                     /\ UNCHANGED <<mouse_status, scrollbar_fg, c_panicked>>
                ELSE /\ scrollbar_fg' = FgFor(target)
                     /\ mouse_status' = Hover(target)
                     /\ c_ret' = TRUE
                     /\ UNCHANGED c_panicked
           ELSE \* MouseStatus::Drag { .. } => unreachable!()
                /\ c_panicked' = TRUE
                /\ UNCHANGED <<mouse_status, scrollbar_fg, c_ret>>
    /\ UNCHANGED <<scroll_offset, thumb, window_size, c_term>>
    /\ UNCHANGED nonCellVars

\* a drag_end that matches on the status without taking it
DragEndStatus_NotTaken(status) == status

\* mem::take(&mut self.mouse_status) leaves the default status behind
DragEndStatus(status) == DefaultMouseStatus

\* pub fn drag_end(&mut self): match mem::take(&mut self.mouse_status)
CellDragEnd ==
    /\ CellAlive
    /\ c_last' = "drag_end"
    /\ mouse_status' = DragEndStatus(mouse_status)
    /\ IF mouse_status.kind = "Hover"
       THEN \* MouseStatus::Hover(_) => unreachable!()
            /\ c_panicked' = TRUE
            /\ UNCHANGED scrollbar_fg
       ELSE /\ scrollbar_fg' = IF mouse_status.target = "ScrollBar"
                               THEN "UNFOCUSED" ELSE scrollbar_fg
            /\ UNCHANGED c_panicked
    /\ UNCHANGED <<scroll_offset, thumb, window_size, c_term, c_ret, c_cursor>>
    /\ UNCHANGED nonCellVars

\* the status drag() leaves behind
DragStatus(status, target, x, y) ==
    IF status.kind = "Hover"
    THEN Drag(target, <<x, y>>, <<x, y>>)
    ELSE Drag(status.target, status.start, <<x, y>>)

\* pub fn drag(&mut self, x, y) -> bool
CellDrag ==
    /\ CellAlive
    /\ \E x \in Xs, y \in Ys :
        LET target == Target(thumb, window_size, x, y) IN
        /\ c_last' = "drag"
        /\ c_cursor' = <<x, y>>
        /\ mouse_status' = DragStatus(mouse_status, target, x, y)
        /\ IF mouse_status.kind = "Hover"
           THEN /\ scrollbar_fg' = FgFor(target)
                /\ c_ret' = TRUE
           ELSE /\ c_ret' = (mouse_status.current # <<x, y>>)
                /\ UNCHANGED scrollbar_fg
    /\ UNCHANGED <<scroll_offset, thumb, window_size, c_term, c_panicked>>
    /\ UNCHANGED nonCellVars

\* pub fn resize(&mut self, width, height)
CellResize ==
    /\ CellAlive
    /\ \E size \in WindowSizes : window_size' = size
    /\ c_last' = "resize"
    /\ UNCHANGED <<scroll_offset, mouse_status, scrollbar_fg, thumb, c_term,
                   c_ret, c_panicked, c_cursor>>
    /\ UNCHANGED nonCellVars

\* a scroll that subtracts the offset instead of adding it
ScrollResult_Reversed(current, offset, t) ==
    Clamp(WrapISize(current - offset), 0, VisibleRowToStableRow0(t))

\* a scroll that forgets the upper clamp
ScrollResult_NoUpperClamp(current, offset, t) ==
    Max(WrapISize(current + offset), 0)

\* the offset scroll() stores: (self.scroll_offset + offset).max(min).min(max)
ScrollResult(current, offset, t) ==
    Clamp(WrapISize(current + offset), 0, VisibleRowToStableRow0(t))

\* pub fn scroll(&mut self, offset, term)
\* checked: the build panics on arithmetic overflow (debug) or wraps (release)
CellScroll ==
    /\ CellAlive
    /\ \E offset \in ScrollOffsets, checked \in BOOLEAN :
        LET overflows == WrapISize(scroll_offset + offset) # scroll_offset + offset IN
        /\ c_last' = "scroll"
        /\ IF overflows /\ checked
           THEN /\ c_panicked' = TRUE
                /\ UNCHANGED scroll_offset
           ELSE /\ scroll_offset' = ScrollResult(scroll_offset, offset, c_term)
                /\ UNCHANGED c_panicked
    /\ UNCHANGED <<mouse_status, scrollbar_fg, thumb, window_size, c_term, c_ret,
                   c_cursor>>
    /\ UNCHANGED nonCellVars

\* pub fn scroll_to_bottom(&mut self, term)
ScrollToBottomResult(t) == VisibleRowToStableRow0(t)

CellScrollToBottom ==
    /\ CellAlive
    /\ c_last' = "scroll_to_bottom"
    /\ scroll_offset' = ScrollToBottomResult(c_term)
    /\ UNCHANGED <<mouse_status, scrollbar_fg, thumb, window_size, c_term,
                   c_ret, c_panicked, c_cursor>>
    /\ UNCHANGED nonCellVars

\* pub fn set_terminal(&mut self, device, queue, term): the scrollbar thumb is
\* the visible range start..end of the screen's lines
CellSetTerminal ==
    /\ CellAlive
    /\ c_last' = "set_terminal"
    /\ LET full_height == VisibleRowToStableRow0(c_term) + PhysicalRows
           start == Min(scroll_offset, full_height)
           end == Min(scroll_offset + PhysicalRows, full_height)
       IN thumb' = [set |-> TRUE, start |-> start, len |-> end - start,
                    full |-> full_height]
    /\ UNCHANGED <<scroll_offset, mouse_status, scrollbar_fg, window_size, c_term,
                   c_ret, c_panicked, c_cursor>>
    /\ UNCHANGED nonCellVars

\* the renderer receives a newer snapshot of the terminal
CellNewSnapshot ==
    /\ CellAlive
    /\ c_term.seq < MaxSnapshots
    /\ \E scrolled \in {0, 1} : c_term' = Advance(c_term, scrolled)
    /\ c_last' = "snapshot"
    /\ UNCHANGED <<scroll_offset, mouse_status, scrollbar_fg, thumb, window_size,
                   c_ret, c_panicked, c_cursor>>
    /\ UNCHANGED nonCellVars

\* CellContext::new
InitCell ==
    /\ scroll_offset = 0
    /\ mouse_status = DefaultMouseStatus
    /\ scrollbar_fg = "UNFOCUSED"
    /\ thumb = InitialThumb
    /\ window_size = InitialWindowSize
    /\ c_term = NewTerminal
    /\ c_last = "new"
    /\ c_ret = FALSE
    /\ c_panicked = FALSE
    /\ c_cursor = NoCursor

\* the operations of the CellContext called in any order
NextCell ==
    \/ CellClick /\ UNCHANGED routeVars
    \/ CellHover /\ UNCHANGED routeVars
    \/ CellDragEnd /\ UNCHANGED routeVars
    \/ CellDrag /\ UNCHANGED routeVars
    \/ CellResize /\ UNCHANGED routeVars
    \/ CellScroll /\ UNCHANGED routeVars
    \/ CellScrollToBottom /\ UNCHANGED routeVars
    \/ CellSetTerminal /\ UNCHANGED routeVars
    \/ CellNewSnapshot /\ UNCHANGED routeVars

(***************************************************************************)
(* The mouse events of the window routed to the CellContext: CursorMove    *)
(* goes to hover while no button is held and to drag while it is held,     *)
(* Left(true) enters Drag at the cursor, Left(false) calls drag_end if the *)
(* drag moved and click otherwise                                          *)
(***************************************************************************)
\* TemuEvent::CursorMove { x, y }
RouteCursorMove ==
    /\ IF left_pressed THEN CellDrag ELSE CellHover
    /\ drag_moved' = (drag_moved \/ (left_pressed /\ c_ret'))
    /\ UNCHANGED left_pressed

\* TemuEvent::Left(true): Hover -> Drag at the position of the cursor
RouteLeftPressed ==
    /\ ~left_pressed
    /\ c_cursor # NoCursor
    /\ CellDrag
    /\ c_cursor' = c_cursor
    /\ left_pressed' = TRUE
    /\ drag_moved' = FALSE

\* TemuEvent::Left(false), also when the press was never seen
RouteLeftReleased ==
    /\ IF drag_moved THEN CellDragEnd ELSE CellClick
    /\ left_pressed' = FALSE
    /\ drag_moved' = FALSE

InitRoute ==
    /\ left_pressed = FALSE
    /\ drag_moved = FALSE

\* between the events the frame's snapshot is handed to set_terminal
NextRoute ==
    \/ RouteCursorMove \/ RouteLeftPressed \/ RouteLeftReleased
    \/ CellNewSnapshot /\ UNCHANGED routeVars
    \/ CellSetTerminal /\ UNCHANGED routeVars

(***************************************************************************)
(* A scroll round trip: n calls of scroll(-1), then n calls of scroll(1),  *)
(* with newer snapshots arriving at any point in between                   *)
(***************************************************************************)
\* before a round trip the context is scrolled and fed snapshots freely
TripPrepareScroll == trip_phase = "idle" /\ CellScroll /\ UNCHANGED routeVars
TripPrepareSnapshot ==
    trip_phase = "idle" /\ CellNewSnapshot /\ UNCHANGED routeVars

TripBegin ==
    /\ CellAlive
    /\ trip_phase = "idle"
    /\ \E n \in 0..MaxTrip :
        /\ trip_n' = n
        /\ trip_left' = n
        /\ trip_phase' = IF n = 0 THEN "end" ELSE "up"
    /\ trip_start' = scroll_offset
    /\ trip_output' = FALSE
    /\ UNCHANGED <<renderVars, cellVars, vecVars, routeVars, auxVars>>

\* self.scroll(-1, term), or self.scroll(1, term) on the way down
TripScroll(phase, offset, next) ==
    /\ trip_phase = phase
    /\ scroll_offset' = ScrollResult(scroll_offset, offset, c_term)
    /\ c_last' = "scroll"
    /\ trip_left' = IF trip_left = 1 THEN trip_n ELSE trip_left - 1
    /\ trip_phase' = IF trip_left = 1 THEN next ELSE phase
    /\ UNCHANGED <<trip_start, trip_n, trip_output>>
    /\ UNCHANGED <<mouse_status, scrollbar_fg, thumb, window_size, c_term, c_ret,
                   c_panicked, c_cursor>>
    /\ UNCHANGED <<renderVars, vecVars, routeVars, auxVars>>

TripScrollUp == TripScroll("up", -1, "down")
TripScrollDown == TripScroll("down", 1, "end")

\* the renderer receives a newer snapshot during the round trip
TripOutput ==
    /\ trip_phase \in {"up", "down"}
    /\ c_term.seq < MaxSnapshots
    /\ \E scrolled \in {0, 1} : c_term' = Advance(c_term, scrolled)
    /\ c_last' = "snapshot"
    /\ trip_output' = TRUE
    /\ UNCHANGED <<trip_phase, trip_start, trip_n, trip_left>>
    /\ UNCHANGED <<scroll_offset, mouse_status, scrollbar_fg, thumb, window_size,
                   c_ret, c_panicked, c_cursor>>
    /\ UNCHANGED <<renderVars, vecVars, routeVars, auxVars>>

TripReset ==
    /\ trip_phase = "end"
    /\ trip_phase' = "idle"
    /\ UNCHANGED <<trip_start, trip_n, trip_left, trip_output>>
    /\ UNCHANGED <<renderVars, cellVars, vecVars, routeVars, auxVars>>

InitTrip ==
    /\ trip_phase = "idle"
    /\ trip_start = 0
    /\ trip_n = 0
    /\ trip_left = 0
    /\ trip_output = FALSE

NextTrip ==
    \/ TripPrepareScroll \/ TripPrepareSnapshot
    \/ TripBegin \/ TripScrollUp \/ TripScrollDown \/ TripOutput \/ TripReset

(***************************************************************************)
(* WgpuVec: wgpu-container/src/wgpu_vec.rs and src/render/wgpu_vec.rs      *)
(***************************************************************************)
\* WgpuVec::new: Self::with_capacity(device, usage, 256)
CONTAINER_INIT_CAP == 256
\* const INIT_CAP: usize = 1024
INIT_CAP == 1024

\* lengths the CPU vector is left with between two writes
CpuLens(unit) == {k * unit + r : k \in 0..MaxLenUnits, r \in {0, 1}}

\* a write that doubles the capacity once, whatever the length
GrownCap_Once(cap, len) == cap * 2

\* while self.inner_cap < self.cpu_buffer.len() { self.inner_cap *= 2 }
RECURSIVE GrownCap(_, _)
GrownCap(cap, len) == IF cap < len THEN GrownCap(cap * 2, len) ELSE cap

\* a write that reallocates the GPU buffer to fit the CPU vector exactly
WriteCap_ShrinkToFit(cap, len) == Max(len, 1)

\* inner_cap after write: if self.inner_cap < self.cpu_buffer.len() { ... }
WriteCap(cap, len) == IF cap < len THEN GrownCap(cap, len) ELSE cap

\* the caller edits the vector behind cpu_buffer_mut()
VecEdit ==
    /\ \E len \in CpuLens(CONTAINER_INIT_CAP) : v_len' = len
    /\ vec_last' = "edit"
    /\ UNCHANGED <<v_cap, v_alloc, rv_len, rv_cap, rv_alloc, rv_written>>
    /\ UNCHANGED nonVecVars

\* wgpu-container WgpuVec::write
VecWrite ==
    /\ v_cap' = WriteCap(v_cap, v_len)
    \* the buffer is created anew only when the capacity grew
    /\ v_alloc' = IF v_cap < v_len THEN WriteCap(v_cap, v_len) ELSE v_alloc
    \* queue.write_buffer(&self.inner, 0, cast_slice(&self.cpu_buffer))
    /\ vec_last' = "write"
    /\ UNCHANGED <<v_len, rv_len, rv_cap, rv_alloc, rv_written>>
    /\ UNCHANGED nonVecVars

\* the caller edits the vector behind as_vec_mut()
RenderVecEdit ==
    /\ \E len \in CpuLens(INIT_CAP) : rv_len' = len
    /\ vec_last' = "render_edit"
    /\ UNCHANGED <<v_len, v_cap, v_alloc, rv_cap, rv_alloc, rv_written>>
    /\ UNCHANGED nonVecVars

\* self.inner_cap *= 2
RenderGrownCap(cap) == cap * 2

\* render/wgpu_vec.rs WgpuVec::write
RenderVecWrite ==
    /\ IF rv_cap < rv_len
       THEN /\ rv_cap' = RenderGrownCap(rv_cap)
            \* create_buffer_init with contents: the buffer holds vec.len() elements
            /\ rv_alloc' = rv_len
       ELSE \* queue.write_buffer(&self.inner, 0, cast_slice(&self.vec))
            UNCHANGED <<rv_cap, rv_alloc>>
    /\ rv_written' = rv_len
    /\ vec_last' = "render_write"
    /\ UNCHANGED <<v_len, v_cap, v_alloc, rv_len>>
    /\ UNCHANGED nonVecVars

\* WgpuVec::new of both types
InitVec ==
    /\ v_len = 0
    /\ v_cap = Max(CONTAINER_INIT_CAP, 1)
    /\ v_alloc = Max(CONTAINER_INIT_CAP, 1)
    /\ rv_len = 0
    /\ rv_cap = INIT_CAP
    /\ rv_alloc = INIT_CAP
    /\ rv_written = 0
    /\ vec_last = "new"

NextVec == VecEdit \/ VecWrite \/ RenderVecEdit \/ RenderVecWrite

(***************************************************************************)
(* WgpuCell: wgpu-container/src/wgpu_cell.rs and src/render/wgpu_cell.rs   *)
(***************************************************************************)
\* pub fn as_mut(&mut self) -> &mut T: the caller writes through the reference
WCellAsMut ==
    /\ wc_outdated' = TRUE
    /\ \E v \in 0..MaxCellValue : wc_value' = v
    /\ wc_touched' = TRUE
    /\ wc_wrote' = FALSE
    /\ wc_last' = "as_mut"
    /\ UNCHANGED <<wc_gpu, rwc_value, rwc_gpu>>
    /\ UNCHANGED <<coreVars, gridVars, bgVars, fontVars, lyonVars, kbVars>>

\* the GPU buffer after wgpu-container's update: self.outdated = true; f(&mut self.value)
UpdateGpu(gpu, value) == gpu

\* pub fn update(&mut self, f): f sets the value
WCellUpdate ==
    /\ wc_outdated' = TRUE
    /\ \E v \in 0..MaxCellValue :
        /\ wc_value' = v
        /\ wc_gpu' = UpdateGpu(wc_gpu, v)
    /\ wc_touched' = TRUE
    /\ wc_wrote' = FALSE
    /\ wc_last' = "update"
    /\ UNCHANGED <<rwc_value, rwc_gpu>>
    /\ UNCHANGED <<coreVars, gridVars, bgVars, fontVars, lyonVars, kbVars>>

\* a flush that writes whether or not the cell is outdated
FlushWrites_Always(outdated) == TRUE

\* if self.outdated { queue.write_buffer(..) }
FlushWrites(outdated) == outdated

\* pub fn flush(&mut self, queue)
WCellFlush ==
    /\ wc_wrote' = FlushWrites(wc_outdated)
    /\ wc_gpu' = IF FlushWrites(wc_outdated) THEN wc_value ELSE wc_gpu
    /\ wc_outdated' = FALSE
    /\ wc_touched' = FALSE
    /\ wc_last' = "flush"
    /\ UNCHANGED <<wc_value, rwc_value, rwc_gpu>>
    /\ UNCHANGED <<coreVars, gridVars, bgVars, fontVars, lyonVars, kbVars>>

\* render/wgpu_cell.rs update: f(&mut self.value); queue.write_buffer(..)
RenderWCellUpdate ==
    /\ \E v \in 0..MaxCellValue :
        /\ rwc_value' = v
        /\ rwc_gpu' = v
    /\ wc_last' = "render_update"
    /\ UNCHANGED <<wc_value, wc_gpu, wc_outdated, wc_touched, wc_wrote>>
    /\ UNCHANGED <<coreVars, gridVars, bgVars, fontVars, lyonVars, kbVars>>

\* WgpuCell::zeroed(device, usage) and WgpuCell::new(device, usage, 0)
InitWCell ==
    /\ wc_value = 0
    /\ wc_gpu = wc_value
    /\ wc_outdated = FALSE
    /\ wc_touched = FALSE
    /\ wc_wrote = FALSE
    /\ rwc_value = 0
    /\ rwc_gpu = rwc_value
    /\ wc_last = "new"

NextWCell == WCellAsMut \/ WCellUpdate \/ WCellFlush \/ RenderWCellUpdate

(***************************************************************************)
(* Terminal of src/term/grid.rs                                            *)
(***************************************************************************)
\* the character ' ' of an empty cell; characters are their code points
BLANK == 32

\* Line::new(col): vec![Cell::new(' '); col]
LineNew(col) == [i \in 1..col |-> BLANK]

\* Terminal::new(column)
TerminalNew(column) ==
    [grid |-> <<LineNew(column)>>, cursor |-> <<0, 0>>, column |-> column,
     panicked |-> FALSE]

\* self.grid.push(Line::new(self.column))
NewRow(t) == [t EXCEPT !.grid = Append(@, LineNew(t.column))]

\* a line feed that never appends a row
Lf_NoNewRow(t) == [t EXCEPT !.cursor[2] = @ + 1]

\* pub fn lf(&mut self)
Lf(t) ==
    LET new_y == t.cursor[2] + 1
        grown == IF Len(t.grid) = new_y THEN NewRow(t) ELSE t
    IN [grown EXCEPT !.cursor[2] = new_y]

\* pub fn advance_cursor(&mut self)
AdvanceCursor(t) ==
    IF t.cursor[1] = t.column - 1
    THEN Lf([t EXCEPT !.cursor[1] = 0])
    ELSE [t EXCEPT !.cursor[1] = @ + 1]

\* the cursor indexes a cell of the grid
CursorInGrid(t) == t.cursor[2] < Len(t.grid) /\ t.cursor[1] < t.column

\* pub fn text(&mut self, c): current_cell_mut panics outside the grid
Text(t, c) ==
    IF CursorInGrid(t)
    THEN AdvanceCursor([t EXCEPT !.grid[t.cursor[2] + 1][t.cursor[1] + 1] = c])
    ELSE [t EXCEPT !.panicked = TRUE]

\* pub fn erase_all(&mut self)
EraseAll(t) == [t EXCEPT !.grid = <<LineNew(t.column)>>, !.cursor = <<0, 0>>]

\* EraseToEndOfLine: self.grid[self.cursor.1].raw[self.cursor.0..] = ' '
EraseToEndOfLine(t) ==
    IF t.cursor[2] < Len(t.grid) /\ t.cursor[1] <= t.column
    THEN [t EXCEPT !.grid[t.cursor[2] + 1] =
                      [i \in 1..t.column |-> IF i > t.cursor[1] THEN BLANK ELSE @[i]]]
    ELSE [t EXCEPT !.panicked = TRUE]

\* pub fn cursor_down(&mut self, n): for _ in 0..n { self.lf() }
RECURSIVE CursorDown(_, _)
CursorDown(t, n) == IF n = 0 THEN t ELSE CursorDown(Lf(t), n - 1)

\* for _ in 0..new_line { self.new_row() }
RECURSIVE NewRows(_, _)
NewRows(t, n) == IF n <= 0 THEN t ELSE NewRows(NewRow(t), n - 1)

\* a Cursor Position that does not clamp the column
CursorPosition_NoClamp(t, col, line) ==
    [NewRows(t, line - (Len(t.grid) - 1)) EXCEPT !.cursor = <<col, line>>]

\* Cursor::Position { col, line }, both zero based
CursorPosition(t, col, line) ==
    LET grown == NewRows(t, line - (Len(t.grid) - 1))
    IN [grown EXCEPT !.cursor = <<Min(col, t.column - 1), line>>]

\* pub fn cursor_pos(&self) -> usize
CursorPos(t) == t.cursor[1] + t.cursor[2] * t.column

Act(type, a, b) == [type |-> type, a |-> a, b |-> b]

\* the termwiz actions handed to perform_action
GridActions ==
    {Act(ty, 0, 0) : ty \in {"Backspace", "LineFeed", "CarriageReturn",
                             "EraseToEndOfDisplay", "EraseDisplay",
                             "EraseToEndOfLine", "ShowCursor", "Sgr", "Other"}}
    \cup {Act("Print", 97, 0)}
    \cup {Act("Position", col, line) : col \in 0..MaxColumn, line \in 0..(MaxGridRows - 1)}
    \cup {Act(ty, n, 0) : ty \in {"Up", "Down", "Right", "Left"}, n \in 0..MaxMove}

\* an unimplemented action that is printed as a character
OtherAction_Printed(t) == Text(t, 63)

\* other => { log::warn!("Unimplemented action {:?}", other); }
OtherAction(t) == t

\* pub fn perform_action(&mut self, action)
PerformAction(t, action) ==
    CASE action.type = "Print" -> Text(t, action.a)
      [] action.type = "Backspace" -> [t EXCEPT !.cursor[1] = Max(@ - 1, 0)]
      [] action.type = "LineFeed" -> Lf(t)
      [] action.type = "CarriageReturn" -> [t EXCEPT !.cursor[1] = 0]
      [] action.type \in {"EraseToEndOfDisplay", "EraseDisplay"} -> EraseAll(t)
      [] action.type = "EraseToEndOfLine" -> EraseToEndOfLine(t)
      [] action.type \in {"ShowCursor", "Sgr"} -> t
      [] action.type = "Position" -> CursorPosition(t, action.a, action.b)
      [] action.type = "Up" -> [t EXCEPT !.cursor[2] = Max(@ - action.a, 0)]
      [] action.type = "Down" -> CursorDown(t, action.a)
      [] action.type = "Right" ->
             [t EXCEPT !.cursor[1] = Min(@ + action.a, t.column - 1)]
      [] action.type = "Left" -> [t EXCEPT !.cursor[1] = Max(@ - action.a, 0)]
      [] OTHER -> OtherAction(t)

\* Terminal::new(column) with column >= 1
GridNew ==
    /\ \E column \in 1..MaxColumn : g_term' = TerminalNew(column)
    /\ g_last' = Act("New", 0, 0)
    /\ UNCHANGED <<coreVars, wcellVars, bgVars, fontVars, lyonVars, kbVars>>

GridPerform ==
    /\ ~g_term.panicked
    /\ \E action \in GridActions :
        /\ Len(PerformAction(g_term, action).grid) <= MaxGridRows
        /\ g_term' = PerformAction(g_term, action)
        /\ g_last' = action
    /\ UNCHANGED <<coreVars, wcellVars, bgVars, fontVars, lyonVars, kbVars>>

InitGrid ==
    /\ g_term = TerminalNew(MaxColumn)
    /\ g_last = Act("New", 0, 0)

NextGrid == GridNew \/ GridPerform

(***************************************************************************)
(* The cell-background pass of CellContext::set_terminal: the screen has   *)
(* MaxColumn columns, PhysicalRows visible rows and ScrollbackLimit rows   *)
(* of scrollback; a cell is modelled by its background colour              *)
(***************************************************************************)
\* ColorAttribute::Default
DefaultBg == 0

BgRows == PhysicalRows + ScrollbackLimit

\* the cells of one row, and the rows of a screen
BgScreens == [1..BgRows -> [1..MaxColumn -> {DefaultBg, 1}]]

\* (0..physical_cols).zip(0..physical_rows): the pairs (0, 0), (1, 1), ...
\* up to the shorter of the two ranges
ZipColsRows == [i \in 1..Min(MaxColumn, PhysicalRows) |-> <<i - 1, i - 1>>]

\* filter_map: the cell lines[y].cells()[x], kept when its background is not
\* the default, as an instance at cell (x, y)
CellInstances(lines) ==
    LET kept(p) == lines[p[2] + 1][p[1] + 1] # DefaultBg
        vertex(p) == [x |-> p[1], y |-> p[2],
                      color |-> lines[p[2] + 1][p[1] + 1]]
        pairs == SelectSeq(ZipColsRows, kept)
    IN [i \in 1..Len(pairs) |-> vertex(pairs[i])]

\* the renderer is handed a snapshot with other cells
BgNewSnapshot ==
    /\ \E lines \in BgScreens : bg_lines' = lines
    /\ bg_last' = "snapshot"
    /\ UNCHANGED <<bg_offset, bg_instances>>
    /\ UNCHANGED <<coreVars, wcellVars, gridVars, fontVars, lyonVars, kbVars>>

\* scroll / scroll_to_bottom move the visible range
BgScroll ==
    /\ \E offset \in 0..ScrollbackLimit : bg_offset' = offset
    /\ bg_last' = "scroll"
    /\ UNCHANGED <<bg_lines, bg_instances>>
    /\ UNCHANGED <<coreVars, wcellVars, gridVars, fontVars, lyonVars, kbVars>>

\* set_terminal: instances.cpu_buffer_mut().clear(); .extend(cells)
BgSetTerminal ==
    /\ bg_instances' = CellInstances(bg_lines)
    /\ bg_last' = "set_terminal"
    /\ UNCHANGED <<bg_lines, bg_offset>>
    /\ UNCHANGED <<coreVars, wcellVars, gridVars, fontVars, lyonVars, kbVars>>

\* CellContext::new: scroll_offset 0 and no instances; a new terminal has
\* blank cells
InitBg ==
    /\ bg_lines = [r \in 1..BgRows |-> [c \in 1..MaxColumn |-> DefaultBg]]
    /\ bg_offset = 0
    /\ bg_instances = <<>>
    /\ bg_last = "new"

NextBg == BgNewSnapshot \/ BgScroll \/ BgSetTerminal

(***************************************************************************)
(* FontTexture::new fills the atlas and the glyph cache from the font's    *)
(* character map; the text pass of set_terminal reads the cache.  Raster   *)
(* sizes and atlas positions are multiples of half a texture width.        *)
(***************************************************************************)
TEXTURE_WIDTH == 1024

GlyphSizes == {k * (TEXTURE_WIDTH \div 2) : k \in 0..MaxGlyphCells}

\* BucketedAtlasAllocator::allocate, by its contract: a rectangle inside the
\* layer that overlaps no rectangle allocated before
Fits(rects, w, h) ==
    {p \in GlyphSizes \X GlyphSizes :
        /\ p[1] + w <= TEXTURE_WIDTH
        /\ p[2] + h <= TEXTURE_WIDTH
        /\ \A r \in rects :
              \/ p[1] + w <= r.x \/ r.x + r.w <= p[1]
              \/ p[2] + h <= r.y \/ r.y + r.h <= p[2]}

\* ArrayAllocator::alloc: the first layer that takes the rectangle, else a
\* new layer; `ok` is FALSE when the new layer refuses it too
\* (expect("Texture is too small")).  allocate returns None when nothing
\* fits; a layer already in use may also refuse a rectangle for which room
\* is left (shelves and buckets)
RECURSIVE ArrayAlloc(_, _, _, _)
ArrayAlloc(inner, w, h, i) ==
    IF i > Len(inner)
    THEN IF Fits({}, w, h) = {}
         THEN {[ok |-> FALSE, x |-> 0, y |-> 0, layer |-> i - 1, inner |-> inner]}
         ELSE {[ok |-> TRUE, x |-> p[1], y |-> p[2], layer |-> i - 1,
                inner |-> Append(inner, {[x |-> p[1], y |-> p[2], w |-> w, h |-> h]})] :
                    p \in Fits({}, w, h)}
    ELSE {[ok |-> TRUE, x |-> p[1], y |-> p[2], layer |-> i - 1,
           inner |-> [inner EXCEPT
                        ![i] = @ \cup {[x |-> p[1], y |-> p[2], w |-> w, h |-> h]}]] :
               p \in Fits(inner[i], w, h)}
         \cup (IF inner[i] # {} \/ Fits(inner[i], w, h) = {}
               THEN ArrayAlloc(inner, w, h, i + 1)
               ELSE {})

\* a raster that is skipped, as one that is empty only in both directions
IsEmptyRaster_Both(w, h) == w = 0 /\ h = 0

\* image.placement.width == 0 || image.placement.height == 0
IsEmptyRaster(w, h) == w = 0 \/ h = 0

\* a copy that is not held inside the slice of its page
BlitInsidePage_Unchecked(x, y, w, h, channels) == TRUE

\* the copy of the raster into its page: image.data holds `channels` bytes
\* per pixel and is cut into chunks of `w` bytes, one page row each
BlitInsidePage(x, y, w, h, channels) ==
    (y + channels * h - 1) * TEXTURE_WIDTH + x + w <= TEXTURE_WIDTH * TEXTURE_WIDTH

\* the layer count as the local counter of FontTexture::new
ReturnedLayerCount_Local(inner, local) == local

\* layer_count: allocator.layer_count()
ReturnedLayerCount(inner, local) == Len(inner)

\* one call of the closure of font.charmap().enumerate: the glyph `ft_next`
\* is rendered (or not: render_into returns false) into a raster of w x h
\* pixels with 1 (mask) or 4 (colour) bytes each
FontGlyph ==
    /\ ft_pc = "enumerate"
    /\ ft_next <= MaxGlyphs
    /\ ft_next' = ft_next + 1
    /\ \E ok \in BOOLEAN, w \in GlyphSizes, h \in GlyphSizes, channels \in {1, 4} :
        /\ ft_empty' = IF ok /\ (w = 0 \/ h = 0) THEN ft_empty \cup {ft_next}
                       ELSE ft_empty
        /\ IF ~ok \/ IsEmptyRaster(w, h)
           THEN UNCHANGED <<ft_pc, ft_allocator, ft_local_layer_count, ft_pages,
                            ft_cache>>
           ELSE \E alloc \in ArrayAlloc(ft_allocator, w, h, 1) :
                LET new_page == alloc.layer - ft_local_layer_count
                    pages == IF new_page >= 0 THEN ft_pages + new_page ELSE ft_pages
                IN /\ ft_allocator' = alloc.inner
                   /\ IF ~alloc.ok
                      THEN /\ ft_pc' = "panic"
                           /\ UNCHANGED <<ft_local_layer_count, ft_pages, ft_cache>>
                      ELSE /\ ft_local_layer_count' =
                                 IF new_page >= 0 THEN ft_local_layer_count + new_page
                                 ELSE ft_local_layer_count
                           /\ ft_pages' = pages
                           /\ IF alloc.layer + 1 <= pages
                                 /\ BlitInsidePage(alloc.x, alloc.y, w, h, channels)
                              THEN /\ ft_cache' = ft_cache \cup
                                        {[id |-> ft_next, x |-> alloc.x, y |-> alloc.y,
                                          w |-> w, h |-> h, layer |-> alloc.layer,
                                          rows |-> channels * h]}
                                   /\ UNCHANGED ft_pc
                              ELSE /\ ft_pc' = "panic"
                                   /\ UNCHANGED ft_cache
    /\ UNCHANGED <<ft_layer_count, tx_line, tx_instances, tx_x, tx_last>>
    /\ UNCHANGED <<coreVars, wcellVars, gridVars, bgVars, lyonVars, kbVars>>

\* the character map is exhausted: Self { font, data, glyph_cache, layer_count }
FontReturn ==
    /\ ft_pc = "enumerate"
    /\ ft_pc' = "done"
    /\ ft_layer_count' = ReturnedLayerCount(ft_allocator, ft_local_layer_count)
    /\ UNCHANGED <<ft_next, ft_allocator, ft_local_layer_count, ft_pages, ft_cache,
                   ft_empty, tx_line, tx_instances, tx_x, tx_last>>
    /\ UNCHANGED <<coreVars, wcellVars, gridVars, bgVars, lyonVars, kbVars>>

\* the lines the shaper can emit: glyphs with an id and an advance
Lines ==
    UNION {[1..n -> [id : 1..MaxGlyphs, advance : 1..MaxAdvance]] :
               n \in 0..MaxLineGlyphs}

\* the loop over the glyphs of a line: a text instance at the pen position
\* for a glyph found in the cache, and x += glyph.advance for every glyph
RECURSIVE TextInstances(_, _, _, _, _)
TextInstances(line, cache, i, x, acc) ==
    IF i > Len(line) THEN [instances |-> acc, x |-> x]
    ELSE LET glyph == line[i]
             infos == {e \in cache : e.id = glyph.id}
             info == CHOOSE e \in infos : TRUE
         IN TextInstances(line, cache, i + 1, x + glyph.advance,
                IF infos # {}
                THEN Append(acc, [offset |-> x,
                                  tex_offset |-> <<info.x, info.y>>,
                                  tex_size |-> <<info.w, info.h>>,
                                  layer |-> info.layer])
                ELSE acc)

\* the text pass of set_terminal over one line
TextShape ==
    /\ ft_pc = "done"
    /\ \E line \in Lines :
        /\ tx_line' = line
        /\ tx_instances' = TextInstances(line, ft_cache, 1, 0, <<>>).instances
        /\ tx_x' = TextInstances(line, ft_cache, 1, 0, <<>>).x
    /\ tx_last' = "shape"
    /\ UNCHANGED <<ft_pc, ft_next, ft_allocator, ft_local_layer_count, ft_pages,
                   ft_cache, ft_layer_count, ft_empty>>
    /\ UNCHANGED <<coreVars, wcellVars, gridVars, bgVars, lyonVars, kbVars>>

\* the first lines of FontTexture::new: ArrayAllocator::new has two layers,
\* data has two pages, the local layer_count is 1
InitFont ==
    /\ ft_pc = "enumerate"
    /\ ft_next = 1
    /\ ft_allocator = <<{}, {}>>
    /\ ft_local_layer_count = 1
    /\ ft_pages = 2
    /\ ft_cache = {}
    /\ ft_layer_count = 0
    /\ ft_empty = {}
    /\ tx_line = <<>>
    /\ tx_instances = <<>>
    /\ tx_x = 0
    /\ tx_last = "new"

NextFont == FontGlyph \/ FontReturn \/ TextShape

(***************************************************************************)
(* LyonContext::update_draw: the meshes of the lines, and the cache of     *)
(* meshes by line text.  A mesh is modelled by the text it was tessellated *)
(* from and the line_no written into its vertices.                         *)
(***************************************************************************)
\* pub fn update_draw(&mut self, command: DrawCommand, device)
UpdateDraw ==
    /\ \/ \* DrawCommand::DeleteLine(no): self.lines.remove(&no)
          /\ \E no \in 0..MaxLyonLine :
              /\ ly_lines' = {l \in ly_lines : l.no # no}
              /\ ly_drawn' = ly_drawn \ {no}
              /\ ly_last' = [type |-> "DeleteLine", no |-> no, text |-> 0]
          /\ UNCHANGED ly_vertex_cache
       \/ \* DrawCommand::Clear: self.lines.clear()
          /\ ly_lines' = {}
          /\ ly_drawn' = {}
          /\ ly_last' = [type |-> "Clear", no |-> 0, text |-> 0]
          /\ UNCHANGED ly_vertex_cache
       \/ \* DrawCommand::Draw(no, line): vertex_cache.entry(line_str)
          \* .or_insert_with_key(..) tessellates with line_no only when the
          \* text is not in the cache; then lines.insert(no, info)
          \E no \in 0..MaxLyonLine, text \in 1..MaxLyonText :
              LET cached == {m \in ly_vertex_cache : m.text = text}
                  info == IF cached # {} THEN CHOOSE m \in cached : TRUE
                          ELSE [text |-> text, line_no |-> no]
              IN /\ ly_vertex_cache' = ly_vertex_cache \cup {info}
                 /\ ly_lines' = {l \in ly_lines : l.no # no}
                                  \cup {[no |-> no, text |-> info.text,
                                         line_no |-> info.line_no]}
                 /\ ly_drawn' = ly_drawn \cup {no}
                 /\ ly_last' = [type |-> "Draw", no |-> no, text |-> text]
    /\ UNCHANGED <<coreVars, wcellVars, gridVars, bgVars, fontVars, kbVars>>

\* LyonContext::new: lines and vertex_cache are empty
InitLyon ==
    /\ ly_lines = {}
    /\ ly_vertex_cache = {}
    /\ ly_drawn = {}
    /\ ly_last = [type |-> "New", no |-> 0, text |-> 0]

(***************************************************************************)
(* The keyboard arm of the Wayland event filter in main: the modifier      *)
(* state is a set of flags, the depressed mask the set of its bits         *)
(***************************************************************************)
\* wl_keyboard::Event::Modifiers { mods_depressed, .. }
KbModifiers ==
    /\ \E depressed \in SUBSET {1, 2, 4, 8, 64} :
        /\ mods_depressed' = depressed
        /\ modifier' = modifier
              \cup (IF 1 \in depressed THEN {"SHIFT"} ELSE {})
              \cup (IF 4 \in depressed THEN {"CONTROL"} ELSE {})
              \cup (IF 8 \in depressed THEN {"ALT"} ELSE {})
              \cup (IF 64 \in depressed THEN {"SUPER"} ELSE {})
    /\ kb_last' = "Modifiers"
    /\ UNCHANGED kb_passed
    /\ UNCHANGED <<coreVars, wcellVars, gridVars, bgVars, fontVars, lyonVars>>

\* wl_keyboard::Event::Key { key, state, .. }: a release returns at once, a
\* press calls engine.press_key_code(key + 8, modifier, &config)
KbKey ==
    /\ \E released \in BOOLEAN :
        IF released
        THEN /\ kb_last' = "KeyReleased"
             /\ UNCHANGED kb_passed
        ELSE /\ kb_last' = "KeyPressed"
             /\ kb_passed' = modifier
    /\ UNCHANGED <<modifier, mods_depressed>>
    /\ UNCHANGED <<coreVars, wcellVars, gridVars, bgVars, fontVars, lyonVars>>

\* let mut modifier = ModifierState::empty()
InitKb ==
    /\ modifier = {}
    /\ mods_depressed = {}
    /\ kb_passed = {}
    /\ kb_last = "None"

NextKb == KbModifiers \/ KbKey

(***************************************************************************)
(* The three threads together                                              *)
(***************************************************************************)
InitRender ==
    /\ t_pc = "top"
    /\ terminal = NewTerminal
    /\ parser = 0
    /\ need_update = TRUE
    /\ last_read = "None"
    /\ reader_tx = TRUE
    /\ shared_terminal = NewTerminal
    /\ changed = FALSE
    /\ mutex = "free"
    /\ published = NewTerminal
    /\ fresh = FALSE
    /\ r_pc = "wait_size"
    /\ need_redraw = TRUE
    /\ prev_resize = <<0, 0>>
    /\ ctx_terminal = NewTerminal
    /\ cursor_vertex_outdated = FALSE
    /\ config = <<0, 0>>
    /\ r_last = "other"
    /\ event_ch = <<>>
    /\ w_state = "running"

Init == InitRender /\ InitCell /\ InitVec /\ InitTrip /\ InitRoute /\ InitWCell /\ InitGrid /\ InitBg /\ InitFont
        /\ InitLyon /\ InitKb

Next ==
    \/ TryUpdateLocked \/ TryUpdateStore \/ TryUpdateBusy \/ SkipUpdate \/ ReadStep
    \/ SendResize \/ SendPlain \/ SendClose \/ WindowQuiet \/ WindowExit
    \/ WaitSizeRecv \/ WaitSizeDisconnected
    \/ RedrawStep \/ NoRedraw
    \/ TakeSwap \/ TakeLock \/ TakeAssign
    \/ RecvEvent \/ RecvDisconnected \/ RecvEmpty

Spec == Init /\ [][Next]_vars

\* Scheduling: a thread that can take a step that does not block takes it.
\* The reader's read of the PTY and the window's sends may never happen.
FairSpec ==
    /\ Spec
    /\ WF_vars(Renderer)
    /\ WF_vars(TryUpdateLocked \/ TryUpdateStore \/ TryUpdateBusy \/ SkipUpdate)

SpecCell == Init /\ [][NextCell]_vars

SpecVec == Init /\ [][NextVec]_vars

SpecTrip == Init /\ [][NextTrip]_vars

SpecWCell == Init /\ [][NextWCell]_vars

SpecGrid == Init /\ [][NextGrid]_vars

SpecBg == Init /\ [][NextBg]_vars

SpecRoute == Init /\ [][NextRoute]_vars

SpecLyon == Init /\ [][UpdateDraw]_vars

SpecKb == Init /\ [][NextKb]_vars

SpecFont == Init /\ [][NextFont]_vars

(***************************************************************************)
(* Properties of the three threads                                         *)
(***************************************************************************)
\* the renderer's step that hands the taken snapshot to the context
TakeAssignStep == r_pc = "assign" /\ r_pc' = "recv"
\* the renderer's step that runs the `if need_redraw` block
DrawStep == r_pc = "loop" /\ r_pc' = "take" /\ r_last' \in {"redraw", "redraw_none"}
\* the renderer's main loop handles the event at the head of the channel
HandleStep(type) ==
    /\ r_pc = "recv" /\ event_ch # <<>>
    /\ Head(event_ch).type = type
    /\ r_pc' # "recv"
\* the renderer is out of its loop
RendererLeft == r_pc \in {"done", "panic"}

\* C2: the snapshot the renderer takes is the one stored by the most recent
\* successful try_update_terminal, and it is never older than the snapshot
\* the renderer took before
C2_LatestWins ==
    [][TakeAssignStep =>
         /\ ctx_terminal' = published
         /\ ctx_terminal'.seq >= ctx_terminal.seq]_vars

C2_Witness ==
    /\ r_pc = "recv" /\ ctx_terminal.seq = MaxReads
    /\ terminal.seq = MaxReads /\ published = terminal

\* C3: redraw runs only in an iteration that starts with need_redraw set,
\* and need_redraw is clear right after it
C3_DrawOnlyWhenDirty ==
    [][DrawStep => need_redraw /\ ~need_redraw']_vars

C3_Witness == r_pc = "take" /\ r_last = "redraw" /\ ~need_redraw /\ ctx_terminal.seq > 0

\* C4: taking a new snapshot resets scroll_offset to the stable index of the
\* first physical row and marks the frame dirty
C4_PinToBottomOnOutput ==
    [][TakeAssignStep =>
         /\ scroll_offset' = VisibleRowToStableRow0(ctx_terminal')
         /\ need_redraw']_vars

\* C5: an Interrupted read leaves parser and terminal unchanged and the
\* reader in its loop; EOF and every other error end the loop without a panic
C5_ReaderLoop ==
    [][(t_pc = "read" /\ t_pc' # "read") =>
         /\ last_read' = "Interrupted" =>
               (terminal' = terminal /\ parser' = parser /\ t_pc' = "top")
         /\ last_read' \in {"Eof", "Error"} => t_pc' = "done"]_vars

C5_Witness ==
    /\ last_read = "Interrupted" /\ t_pc = "top"
    /\ terminal.seq > 0 /\ reader_tx

\* C6: once the window has sent Close, the renderer eventually leaves its loop
C6_CloseEndsRenderer ==
    [](w_state = "closed" => <>RendererLeft)

\* C7: once the reader has terminated and the renderer is in its main loop,
\* the renderer eventually leaves the loop although the window keeps its
\* senders and sends nothing more
C7_ReaderExitEndsRenderer ==
    []((t_pc = "done" /\ w_state = "quiet" /\ r_pc # "wait_size") => <>RendererLeft)

\* C10: a Resize with a zero width or height reconfigures nothing, leaves the
\* recorded size alone and does not mark the frame dirty
C10_ZeroResizeIsNoOp ==
    [][(HandleStep("Resize")
          /\ (Head(event_ch).width = 0 \/ Head(event_ch).height = 0)) =>
         /\ config' = config
         /\ prev_resize' = prev_resize
         /\ need_redraw' = need_redraw]_vars

\* the renderer configures the surface for the Resize at the head of the
\* channel: Viewport::new after wait_size, or ctx.resize in the main loop
ReconfigureStep ==
    /\ event_ch # <<>>
    /\ Head(event_ch).type = "Resize"
    /\ \/ r_pc = "wait_size" /\ r_pc' = "loop"
       \/ HandleStep("Resize") /\ ResizeChanges(prev_resize, Head(event_ch).width,
                                                Head(event_ch).height)

\* C11: a Resize{w, h} with w > 0 and h > 0 that reconfigures the surface
\* configures it with exactly width w and height h
C11_ResizeUsesExactSize ==
    [][(ReconfigureStep /\ Head(event_ch).width > 0 /\ Head(event_ch).height > 0) =>
         config' = <<Head(event_ch).width, Head(event_ch).height>>]_vars

\* C12: handling ScrollUp lowers scroll_offset by one and handling ScrollDown
\* raises it by one, clamped to [0, stable index of the first physical row],
\* and either marks the frame dirty
C12_ScrollEvents ==
    [][/\ HandleStep("ScrollUp") =>
            /\ scroll_offset' =
                   Clamp(scroll_offset - 1, 0, VisibleRowToStableRow0(ctx_terminal))
            /\ need_redraw'
       /\ HandleStep("ScrollDown") =>
            /\ scroll_offset' =
                   Clamp(scroll_offset + 1, 0, VisibleRowToStableRow0(ctx_terminal))
            /\ need_redraw']_vars

\* the renderer's main loop finds no event and sleeps
IdleStep == r_pc = "recv" /\ event_ch = <<>> /\ r_pc' = "loop"

\* C14: a newly taken snapshot and every Resize (of non-zero size), ScrollUp,
\* ScrollDown and Redraw event leave the dirty flag set, and the loop never
\* idles while the flag is set (the frame is drawn first)
C14_EventsSetDirty ==
    [][/\ (\/ TakeAssignStep
            \/ (HandleStep("Resize") /\ Head(event_ch).width > 0
                                     /\ Head(event_ch).height > 0)
            \/ HandleStep("Redraw")
            \/ HandleStep("ScrollUp") \/ HandleStep("ScrollDown")) => need_redraw'
       /\ IdleStep => ~need_redraw]_vars

\* C15: when the renderer waits for an event, in wait_size or in the main
\* loop, and finds the channel empty with every sender dropped, it leaves
\* its loop without a panic
C15_DisconnectedExitsCleanly ==
    [][(/\ r_pc \in {"wait_size", "recv"}
         /\ event_ch = <<>> /\ Disconnected
         /\ r_pc' # r_pc) => r_pc' = "done"]_vars

\* C16: every snapshot take_terminal hands to the renderer was stored by a
\* try_update_terminal that ran after the previous take read the cell, so no
\* stored snapshot is handed out twice
C16_NeverSameSnapshotTwice ==
    [][TakeAssignStep => fresh]_vars

KindChange == NextCell /\ mouse_status'.kind # mouse_status.kind

\* C8: the status starts as Hover(Empty); only drag turns Hover into Drag,
\* only drag_end turns Drag into Hover, the other operations keep the kind,
\* and from either kind the other one can be entered
C8_MouseMachine ==
    /\ mouse_status = Hover("Empty")
    /\ [][/\ (mouse_status.kind = "Hover" /\ mouse_status'.kind = "Drag")
               => c_last' = "drag"
          /\ (mouse_status.kind = "Drag" /\ mouse_status'.kind = "Hover")
               => c_last' = "drag_end"
          /\ c_last' \in {"hover", "scroll", "scroll_to_bottom", "resize",
                          "set_terminal", "click", "snapshot"}
               => mouse_status'.kind = mouse_status.kind]_vars
    /\ [](CellAlive => ENABLED KindChange)

C8_Witness ==
    /\ c_last = "drag_end" /\ ~c_panicked
    /\ mouse_status = Hover("Empty") /\ scrollbar_fg = "UNFOCUSED"
    /\ thumb.set /\ scroll_offset > 0

PressStep ==
    /\ mouse_status.kind = "Hover" /\ mouse_status'.kind = "Drag"
    /\ c_cursor # NoCursor /\ c_cursor' = c_cursor

\* C17: the press turns Hover(t) into a Drag whose target is t
C17_PressPreservesTarget ==
    [][PressStep => mouse_status'.target = mouse_status.target]_vars

\* a cursor move while the scrollbar is dragged, over a vertical distance
\* that is worth at least one row of the scrollbar's full height
ScrollBarDragStep ==
    /\ mouse_status.kind = "Drag" /\ mouse_status.target = "ScrollBar"
    /\ c_last' = "drag"
    /\ window_size[2] > 0
    /\ LET dy == mouse_status'.current[2] - mouse_status.current[2] IN
        Max(dy, 0 - dy) * thumb.full >= window_size[2]

\* C18: such a move changes scroll_offset when the offset has room to move
\* in both directions inside [0, stable index of the first physical row]
C18_DragScrolls ==
    [][(/\ ScrollBarDragStep
         /\ 0 < scroll_offset
         /\ scroll_offset < VisibleRowToStableRow0(c_term)) =>
         scroll_offset' # scroll_offset]_vars

\* hover is called while the status is Hover
HoverStep == mouse_status.kind = "Hover" /\ c_last' = "hover"

\* C19: in Hover state a cursor move returns true exactly when the target
\* under the cursor differs from the status's target; then the status takes
\* the new target and scrollbar_fg becomes the focused colour for ScrollBar
\* and the unfocused colour for Empty; otherwise neither changes
C19_HoverDirtyIffTargetChanged ==
    [][HoverStep =>
         LET target == Target(thumb, window_size, c_cursor'[1], c_cursor'[2]) IN
         /\ c_ret' = (target # mouse_status.target)
         /\ mouse_status' = Hover(target)
         /\ scrollbar_fg' = IF c_ret'
                             THEN (IF target = "ScrollBar" THEN "FOCUSED"
                                                           ELSE "UNFOCUSED")
                             ELSE scrollbar_fg]_vars

\* the cursor has moved onto the thumb and off again: the second of the two
\* calls that returned true
C19_Witness ==
    /\ c_last = "hover" /\ c_ret /\ ~c_panicked
    /\ mouse_status = Hover("Empty") /\ scrollbar_fg = "UNFOCUSED"
    /\ thumb.set /\ c_cursor[1] < window_size[1] - SCROLLBAR_WIDTH

(***************************************************************************)
(* Properties of the WgpuVec types                                         *)
(***************************************************************************)
\* C9: the recorded GPU capacity of a WgpuVec never decreases
C9_CapacityMonotone ==
    [][v_cap' >= v_cap /\ rv_cap' >= rv_cap]_vars

C9_Witness ==
    /\ vec_last = "write"
    /\ v_cap > CONTAINER_INIT_CAP /\ v_len < CONTAINER_INIT_CAP
    /\ rv_cap > INIT_CAP /\ rv_len < INIT_CAP /\ rv_written = rv_len

C21_FlushIffOutdated ==
    [][wc_last' = "flush" =>
         /\ wc_wrote' = wc_touched
         /\ ~wc_wrote' => wc_gpu' = wc_gpu
         /\ wc_gpu' = wc_value' /\ ~wc_outdated']_vars

\* a flush of an up-to-date cell that followed a flush that wrote
C21_Witness ==
    /\ wc_last = "flush" /\ ~wc_wrote
    /\ wc_gpu = wc_value /\ wc_gpu = MaxCellValue

\* C22: when update returns, the GPU buffer holds the updated value
C22_UpdateWritesGpu ==
    [][/\ wc_last' = "update" => wc_gpu' = wc_value'
       /\ wc_last' = "render_update" => rwc_gpu' = rwc_value']_vars

(***************************************************************************)
(* Properties of the grid Terminal                                         *)
(***************************************************************************)
\* C23: after a Cursor Position{col, line} action the cursor is
\* (min(col, column - 1), line), the grid has at least line + 1 rows, rows
\* were only appended, and cursor_pos() is cursor column + cursor row * column
C23_CursorPosition ==
    [][(g_last'.type = "Position" /\ ~g_term.panicked) =>
         LET col == g_last'.a
             line == g_last'.b
         IN /\ g_term'.cursor = <<IF col < g_term.column - 1 THEN col
                                                              ELSE g_term.column - 1,
                                   line>>
            /\ Len(g_term'.grid) >= line + 1
            /\ Len(g_term'.grid) >= Len(g_term.grid)
            /\ SubSeq(g_term'.grid, 1, Len(g_term.grid)) = g_term.grid
            /\ CursorPos(g_term') = g_term'.cursor[1] + line * g_term.column
            /\ ~g_term'.panicked]_vars

\* the position lies beyond the last row and beyond the last column
C23_Witness ==
    /\ g_last = Act("Position", MaxColumn, MaxGridRows - 1)
    /\ Len(g_term.grid) = MaxGridRows
    /\ g_term.cursor = <<MaxColumn - 1, MaxGridRows - 1>>
    /\ g_term.grid[1][1] # BLANK

\* C24: the cursor lies inside the grid after every sequence of actions, and
\* no action indexes outside the grid
C24_CursorInsideGrid ==
    /\ ~g_term.panicked
    /\ g_term.cursor[1] >= 0 /\ g_term.cursor[1] < g_term.column
    /\ g_term.cursor[2] >= 0 /\ g_term.cursor[2] < Len(g_term.grid)
    /\ \A y \in 1..Len(g_term.grid) : Len(g_term.grid[y]) = g_term.column

\* line feeds have grown the grid and left the cursor on its last row
C24_Witness ==
    /\ g_last = Act("Down", MaxMove, 0)
    /\ Len(g_term.grid) = MaxGridRows
    /\ g_term.cursor = <<g_term.column - 1, MaxGridRows - 1>>
    /\ g_term.column = MaxColumn

\* C25: the character printed on the last column of a row appends no row
\* and leaves the cursor on that row
C25_NoWrapAtExactWidth ==
    [][(/\ g_last'.type = "Print"
         /\ ~g_term.panicked
         /\ g_term.cursor[1] = g_term.column - 1) =>
         /\ Len(g_term'.grid) = Len(g_term.grid)
         /\ g_term'.cursor[2] = g_term.cursor[2]]_vars

\* C26: the rows kept beyond the physical window never exceed the limit
C26_ScrollbackBounded ==
    Len(g_term.grid) - PhysicalRows <= ScrollbackLimit

\* C27: an action perform_action does not implement changes neither the
\* grid nor the cursor
C27_UnknownActionNotApplied ==
    [][g_last'.type = "Other" => g_term' = g_term]_vars

\* an unimplemented action arrives at a terminal that holds text, with the
\* cursor away from the origin
C27_Witness ==
    /\ g_last.type = "Other" /\ ~g_term.panicked
    /\ Len(g_term.grid) > 1 /\ g_term.cursor = <<1, 1>>
    /\ g_term.grid[1][1] # BLANK

(***************************************************************************)
(* Properties of the cell-background pass                                  *)
(***************************************************************************)
\* the cells of the visible range whose background is not the default
VisibleNonDefault ==
    {<<x, y>> \in (0..MaxColumn - 1) \X (0..PhysicalRows - 1) :
        bg_lines[bg_offset + y + 1][x + 1] # DefaultBg}

\* C28: after set_terminal the cell-background instances are exactly one
\* instance for every cell of the visible range (every column of every
\* visible row) whose background is not the default, positioned at that
\* cell, and none for any other cell.
C28_BackgroundInstances ==
    bg_last = "set_terminal" =>
        /\ {<<bg_instances[i].x, bg_instances[i].y>> :
                i \in 1..Len(bg_instances)} = VisibleNonDefault
        /\ Len(bg_instances) = Cardinality(VisibleNonDefault)

(***************************************************************************)
(* Properties of the glyph cache and the text pass                         *)
(***************************************************************************)
\* the glyphs of the shaped line that have a cache entry
Drawn == {i \in 1..Len(tx_line) : \E e \in ft_cache : e.id = tx_line[i].id}

\* the pen position before the n-th glyph of the shaped line
RECURSIVE PenBefore(_)
PenBefore(n) == IF n <= 1 THEN 0 ELSE PenBefore(n - 1) + tx_line[n - 1].advance

\* C29: a glyph whose raster has zero width or zero height (and any glyph
\* with no cache entry) contributes no text instance and causes no panic,
\* while the pen x position is still advanced by the glyph's advance: such a
\* glyph never gets a cache entry and never ends FontTexture::new in a
\* panic, and a shaped line yields exactly the instances of its glyphs that
\* have an entry, each at the pen position all glyphs before it add up to.
C29_EmptyGlyphSkipped ==
    /\ \A e \in ft_cache : e.id \notin ft_empty
    /\ ft_pc = "panic" => (ft_next - 1) \notin ft_empty
    /\ tx_last = "shape" =>
          /\ Len(tx_instances) = Cardinality(Drawn)
          /\ {tx_instances[k].offset : k \in 1..Len(tx_instances)}
                 = {PenBefore(i) : i \in Drawn}
          /\ tx_x = PenBefore(Len(tx_line) + 1)

\* a line of an empty glyph followed by a glyph with a cache entry was shaped
C29_Witness ==
    /\ tx_last = "shape"
    /\ Len(tx_line) = 2
    /\ tx_line[1].id \in ft_empty
    /\ Drawn = {2}
    /\ tx_x = tx_line[1].advance + tx_line[2].advance
    /\ Len(tx_instances) = 1

\* C30: every glyph cache entry produced by FontTexture::new lies inside its
\* layer and names an existing layer: tex_x + tex_w <= TEXTURE_WIDTH,
\* tex_y + tex_h <= TEXTURE_WIDTH and layer < layer_count, the layer count
\* returned with the atlas.
C30_EntriesInsideAtlas ==
    ft_pc = "done" =>
        \A e \in ft_cache :
            /\ e.x + e.w <= TEXTURE_WIDTH
            /\ e.y + e.h <= TEXTURE_WIDTH
            /\ e.layer < ft_layer_count

\* new returned with an entry on a layer appended after the first two, and
\* an entry that ends on the right and bottom edge of its layer
C30_Witness ==
    /\ ft_pc = "done"
    /\ \E e \in ft_cache : e.layer = 2 /\ ft_layer_count = 3
    /\ \E e \in ft_cache : e.x > 0 /\ e.y > 0 /\ e.x + e.w = TEXTURE_WIDTH
                               /\ e.y + e.h = TEXTURE_WIDTH
(***************************************************************************)
(* Properties of the frame acquisition                                     *)
(***************************************************************************)
\* C31: when the acquisition of the surface texture reports Outdated the
\* frame is skipped (nothing is encoded, submitted or presented) and the
\* renderer goes on without a panic; any other acquisition error is fatal.
C31_OutdatedSkipsFrame ==
    /\ r_last = "Outdated" => r_pc = "take" /\ ~need_redraw
    /\ r_last \in {"Timeout", "Lost", "OutOfMemory"} => r_pc = "panic"

(***************************************************************************)
(* Properties of the publication of the reader's terminal                  *)
(***************************************************************************)
\* C32: under fair scheduling, once the reader has parsed its output and
\* the PTY stays silent (the reader waits in read for ever) while the
\* renderer keeps calling take_terminal, the renderer eventually holds the
\* reader's latest terminal, also when the publish attempt found the mutex
\* taken.
C32_LatestEventuallyTaken ==
    (<>[](t_pc = "read") /\ []<>(r_pc = "take")) => <>[](ctx_terminal = terminal)
(***************************************************************************)
(* Properties of the routed mouse events                                   *)
(***************************************************************************)
\* C33: with the window's events routed as above, no sequence of events
\* reaches an unreachable!() branch: hover is never called in Drag state and
\* drag_end never in Hover state, also for a release without a press and
\* for a press and release without movement.
C33_NoUnreachable == ~c_panicked
(***************************************************************************)
(* Properties of the scrollbar colour                                      *)
(***************************************************************************)
\* C34: after any sequence of hover, drag and drag_end calls (that
\* returned), the scrollbar foreground is the focused colour if and only if
\* the target stored in the mouse status, Hover or Drag, is ScrollBar.
C34_FocusedIffScrollBarTarget ==
    ~c_panicked =>
        (scrollbar_fg = "FOCUSED" <=> mouse_status.target = "ScrollBar")

\* a drag that started on the scrollbar and moved
C34_Witness ==
    /\ ~c_panicked /\ c_last = "drag"
    /\ mouse_status.kind = "Drag" /\ mouse_status.target = "ScrollBar"
    /\ mouse_status.start # mouse_status.current
    /\ scrollbar_fg = "FOCUSED"

(***************************************************************************)
(* Properties of the renderer's WgpuVec                                    *)
(***************************************************************************)
\* C35: in the WgpuVec of src/render/wgpu_vec.rs the recorded capacity
\* inner_cap never exceeds the number of elements the GPU buffer was
\* allocated for, so no write goes past the end of the allocated buffer.
C35_CapWithinAllocation ==
    /\ rv_cap <= rv_alloc
    /\ vec_last = "render_write" => rv_written <= rv_alloc

(***************************************************************************)
(* Properties of the viewport's accessors                                  *)
(***************************************************************************)
\* C36: after any sequence of Viewport::resize calls, width() and height()
\* return the width and the height of the surface configuration applied
\* last.
C36_AccessorsReturnConfig ==
    r_pc \notin {"wait_size", "panic"} =>
        /\ ViewportWidth(config) = config[1]
        /\ ViewportHeight(config) = config[2]

(***************************************************************************)
(* Properties of the line meshes                                           *)
(***************************************************************************)
\* C37: after any sequence of DrawCommands the stored lines are exactly the
\* line numbers drawn and not since deleted or cleared, and the mesh stored
\* for line number n was built for line number n, also when the same text
\* was drawn earlier on another line and comes from the vertex cache.
C37_MeshBuiltForItsLine ==
    /\ {l.no : l \in ly_lines} = ly_drawn
    /\ \A l \in ly_lines : l.line_no = l.no

(***************************************************************************)
(* Properties of the atlas data                                            *)
(***************************************************************************)
\* C38: when FontTexture::new finishes, the atlas data holds exactly
\* layer_count layers, and every copy of a raster made during construction
\* lay inside the layer it was allocated in, whatever number of layers the
\* allocator appended.
C38_DataHoldsLayerCount ==
    ft_pc = "done" =>
        /\ ft_pages = ft_layer_count
        /\ \A e \in ft_cache :
              /\ e.layer < ft_pages
              /\ (e.y + e.rows - 1) * TEXTURE_WIDTH + e.x + e.w
                     <= TEXTURE_WIDTH * TEXTURE_WIDTH

\* new returned after the allocator appended a third layer for the third
\* glyph
C38_Witness ==
    /\ ft_pc = "done"
    /\ ft_pages = 3 /\ Len(ft_allocator) = 3
    /\ Cardinality(ft_cache) = 3
    /\ \E e \in ft_cache : e.layer = 2 /\ e.id = 3

(***************************************************************************)
(* Properties of the keyboard handler                                      *)
(***************************************************************************)
\* the modifiers whose bit is set in the last Modifiers event
Depressed ==
    {m \in {"SHIFT", "CONTROL", "ALT", "SUPER"} :
        \/ m = "SHIFT" /\ 1 \in mods_depressed
        \/ m = "CONTROL" /\ 4 \in mods_depressed
        \/ m = "ALT" /\ 8 \in mods_depressed
        \/ m = "SUPER" /\ 64 \in mods_depressed}

\* C39: after each Modifiers event the modifier state handed to the input
\* engine is the set of modifiers currently depressed: a modifier reported
\* as released is not applied to later key presses.
C39_ModifierIsDepressed ==
    /\ kb_last = "Modifiers" => modifier = Depressed
    /\ kb_last = "KeyPressed" => kb_passed = Depressed
====
